---- MODULE Spec2Model ----
(***************************************************************************)
(* Codec dispatch core of the driver: MessageCodecRegistry                 *)
(* (cassandra/registry.py), DriverContext (cassandra/context.py) and the   *)
(* custom protocol handlers of the integration test                        *)
(* (tests/integration/standard/test_custom_protocol_handler.py).           *)
(*                                                                         *)
(* Python dicts are mutable objects reached through references, so the     *)
(* model keeps an explicit heap: heap.maps holds the outer dicts           *)
(* (protocol version -> reference of an inner dict), heap.tables the inner *)
(* dicts (opcode -> codec function), heap.registries the                   *)
(* MessageCodecRegistry objects and heap.handlers the protocol handler     *)
(* objects.  A reference is an index into one of these sequences; 0 is     *)
(* None.                                                                   *)
(***************************************************************************)
EXTENDS Integers, Sequences, FiniteSets, TLC

VARIABLES
    heap,       \* [maps, tables, registries, handlers]: the objects allocated so far
    ctx,        \* the DriverContext: [_message_codec_registry, _protocol_handler]
    pc,         \* pc[t]: position of thread t inside a property of DriverContext
    frame,      \* frame[t]: the locals of thread t
    obtained,   \* obtained[t]: what the property accesses of thread t returned, in order
    session,    \* [client_protocol_handler]: the handler active for the session
    requests,   \* the requests of the session, in the order they began
    added,      \* the add_encoder / add_decoder calls made so far, in order
    lastCall    \* the last operation carried out and its outcome

vars == <<heap, ctx, pc, frame, obtained, session, requests, added, lastCall>>

(***************************************************************************)
(* Bounds of the model.                                                    *)
(***************************************************************************)
MaxCalls == 3       \* add_* / get_* calls in a run of SpecRegistry
MaxAccess == 2      \* property accesses per thread in SpecThreads
MaxAdds == 2        \* add_* calls on the built default registry in SpecLate
MaxRequests == 2    \* requests begun in Spec
MaxBuildAccess == 1 \* property accesses per thread in SpecBuild
MaxMainAccess == 5  \* property accesses of the one thread of SpecSingle
MaxInstanceCalls == 2 \* add_* calls in a run of SpecInstances

None == 0

(***************************************************************************)
(* Codec functions.  A codec is the bound method  cls.attr ; table is the  *)
(* state of the instance it is bound to: the error dispatch table of an    *)
(* ErrorMessage.Codec instance, empty for the methods bound to a class.    *)
(***************************************************************************)
Method(cls, attr) == [cls |-> cls, attr |-> attr, table |-> {}]

\* The codecs and keys the registry is exercised with in SpecRegistry.
TestVersions == {3, 4}
TestOpcodes == {7, 16}
TestEncoders == {Method("E1", "encode"), Method("E2", "encode")}
TestDecoders == {Method("D1", "decode"), Method("D2", "decode")}

(***************************************************************************)
(* dict operations                                                         *)
(***************************************************************************)
EmptyDict == <<>>

\* d[k] = x
SetItem(d, k, x) == (k :> x) @@ d

\* A constructor that leaves the attributes to the class: every instance
\* uses the two dicts of the class.
RegistryUsingClassDicts(h) ==
    IF h.maps = <<>>
    THEN [h EXCEPT !.maps = <<EmptyDict, EmptyDict>>,
                   !.registries = Append(@, [encoders |-> 1, decoders |-> 2])]
    ELSE [h EXCEPT !.registries = Append(@, [encoders |-> 1, decoders |-> 2])]

\* A constructor that binds both attributes to one dict
\* (self.encoders = self.decoders = {}).
RegistryWithOneDict(h) ==
    LET e == Len(h.maps) + 1
    IN  [h EXCEPT !.maps = Append(@, EmptyDict),
                  !.registries = Append(@, [encoders |-> e, decoders |-> e])]

\* MessageCodecRegistry.__init__: two fresh, empty outer dicts.
\* Returns the heap with the new registry as its last registry.
MessageCodecRegistry(h) ==
    LET e == Len(h.maps) + 1
    IN  [h EXCEPT !.maps = Append(Append(@, EmptyDict), EmptyDict),
                  !.registries = Append(@, [encoders |-> e, decoders |-> e + 1])]

\* A plausible slip of _add: the inner dict of a version is replaced, not updated.
AddReplacingVersion(h, registry, protocol_version, opcode, func) ==
    LET t == Len(h.tables) + 1
    IN  [h EXCEPT !.maps[registry] = SetItem(@, protocol_version, t),
                  !.tables = Append(@, SetItem(EmptyDict, opcode, func))]

\* MessageCodecRegistry._add; registry is the reference of an outer dict.
_add(h, registry, protocol_version, opcode, func) ==
    LET h1 == IF protocol_version \notin DOMAIN h.maps[registry]
              THEN [h EXCEPT !.maps[registry] =
                                 SetItem(@, protocol_version, Len(h.tables) + 1),
                             !.tables = Append(@, EmptyDict)]
              ELSE h
        inner == h1.maps[registry][protocol_version]
    IN  [h1 EXCEPT !.tables[inner] = SetItem(@, opcode, func)]

(***************************************************************************)
(* "{0:02X}".format(opcode) and "{1}".format(protocol_version): the digits *)
(* of the number, most significant first, as a sequence of characters.     *)
(***************************************************************************)
HexDigits == <<"0", "1", "2", "3", "4", "5", "6", "7",
               "8", "9", "A", "B", "C", "D", "E", "F">>

RECURSIVE Digits(_, _)
Digits(n, base) ==
    IF n < base THEN <<HexDigits[n + 1]>>
    ELSE Append(Digits(n \div base, base), HexDigits[(n % base) + 1])

\* {0:02X}: upper-case hexadecimal, zero-padded to width 2.
FormatHex02(n) ==
    LET s == Digits(n, 16) IN IF Len(s) < 2 THEN <<"0">> \o s ELSE s

\* {1}: str() of an integer protocol version.
FormatStr(n) == Digits(n, 10)

\* The value of a digit string, for reading a formatted number back.
DigitValue(c) == (CHOOSE i \in 1..16 : HexDigits[i] = c) - 1

RECURSIVE ParseDigits(_, _)
ParseDigits(s, base) ==
    IF Len(s) = 0 THEN 0
    ELSE ParseDigits(SubSeq(s, 1, Len(s) - 1), base) * base + DigitValue(s[Len(s)])

Returned(x) == [kind |-> "return", value |-> x]

Raised(exc, opcode, protocol_version) ==
    [kind |-> "raise", exc |-> exc,
     message |-> <<"No codec registered for message '", FormatHex02(opcode),
                   "' and protocol version '", FormatStr(protocol_version), "'">>]

\* A plausible slip of _get: dict.get, which answers None for a missing key.
GetOrNone(h, registry, protocol_version, opcode) ==
    IF /\ protocol_version \in DOMAIN h.maps[registry]
       /\ opcode \in DOMAIN h.tables[h.maps[registry][protocol_version]]
    THEN Returned(h.tables[h.maps[registry][protocol_version]][opcode])
    ELSE Returned(Method("None", "None"))

\* MessageCodecRegistry._get: the outcome of the lookup.  Either subscript
\* raises KeyError, which is turned into ValueError.
_get(h, registry, protocol_version, opcode) ==
    IF /\ protocol_version \in DOMAIN h.maps[registry]
       /\ opcode \in DOMAIN h.tables[h.maps[registry][protocol_version]]
    THEN Returned(h.tables[h.maps[registry][protocol_version]][opcode])
    ELSE Raised("ValueError", opcode, protocol_version)

(***************************************************************************)
(* DriverContext._build_message_codec_registry                             *)
(***************************************************************************)
\* ProtocolVersion.V3, V4, V5, in the order of the tuple.
protocol_versions == <<3, 4, 5>>

\* The outbound message classes, in the order of the list.
OutboundMessages ==
    <<"StartupMessage", "RegisterMessage", "BatchMessage", "QueryMessage",
      "ExecuteMessage", "PrepareMessage", "OptionsMessage", "AuthResponseMessage">>

\* The list with one error class left out.
ErrorClassesWithoutCDC ==
    <<"UnavailableErrorMessage", "ReadTimeoutErrorMessage", "WriteTimeoutErrorMessage",
      "IsBootstrappingErrorMessage", "OverloadedErrorMessage", "UnauthorizedErrorMessage",
      "ServerError", "ProtocolException", "BadCredentials", "TruncateError",
      "ReadFailureMessage", "FunctionFailureMessage", "WriteFailureMessage",
      "SyntaxException", "InvalidRequestException",
      "ConfigurationException", "PreparedQueryNotFound", "AlreadyExistsException">>

\* The error classes handed to ErrorMessage.Codec, in the order of the list.
ErrorClasses ==
    <<"UnavailableErrorMessage", "ReadTimeoutErrorMessage", "WriteTimeoutErrorMessage",
      "IsBootstrappingErrorMessage", "OverloadedErrorMessage", "UnauthorizedErrorMessage",
      "ServerError", "ProtocolException", "BadCredentials", "TruncateError",
      "ReadFailureMessage", "FunctionFailureMessage", "WriteFailureMessage",
      "CDCWriteException", "SyntaxException", "InvalidRequestException",
      "ConfigurationException", "PreparedQueryNotFound", "AlreadyExistsException">>

\* The list with the error codec left out.
InboundCodecsWithoutError ==
    <<"ReadyMessage", "EventMessage.Codec", "ResultMessage.Codec", "AuthenticateMessage",
      "AuthSuccessMessage", "AuthChallengeMessage", "SupportedMessage">>

\* The inbound codecs, in the order of the list; the last one is an instance.
InboundCodecs ==
    <<"ReadyMessage", "EventMessage.Codec", "ResultMessage.Codec", "AuthenticateMessage",
      "AuthSuccessMessage", "AuthChallengeMessage", "SupportedMessage",
      "ErrorMessage.Codec">>

\* The opcode attribute of the message classes (the classes of
\* cassandra.protocol): one distinct byte per message kind.
Opcode(cls) ==
    CASE cls = "ErrorMessage.Codec" -> 0
      [] cls = "StartupMessage" -> 1
      [] cls = "ReadyMessage" -> 2
      [] cls = "AuthenticateMessage" -> 3
      [] cls = "OptionsMessage" -> 5
      [] cls = "SupportedMessage" -> 6
      [] cls = "QueryMessage" -> 7
      [] cls = "ResultMessage.Codec" -> 8
      [] cls = "PrepareMessage" -> 9
      [] cls = "ExecuteMessage" -> 10
      [] cls = "RegisterMessage" -> 11
      [] cls = "EventMessage.Codec" -> 12
      [] cls = "BatchMessage" -> 13
      [] cls = "AuthChallengeMessage" -> 14
      [] cls = "AuthResponseMessage" -> 15
      [] cls = "AuthSuccessMessage" -> 16

\* The error_code attribute of an error class: one distinct tag per class.
error_code(e) == <<"error_code", e>>

\* The list with every error code paired with the decoder of the next class.
ErrorDecodersShifted ==
    [i \in 1..Len(ErrorClasses) |->
        <<error_code(ErrorClasses[i]),
          Method(ErrorClasses[(i % Len(ErrorClasses)) + 1], "decode")>>]

\* error_decoders = [(e.error_code, e.decode) for e in [...]]
error_decoders ==
    [i \in 1..Len(ErrorClasses) |->
        <<error_code(ErrorClasses[i]), Method(ErrorClasses[i], "decode")>>]

\* ErrorMessage.Codec(error_decoders).decode: the decoder bound to a codec
\* instance whose dispatch table maps each error code of the list to the
\* decoder paired with it (the last pair of a code wins).
ErrorCodec(pairs) ==
    [cls |-> "ErrorMessage.Codec", attr |-> "decode",
     table |-> {pairs[i] : i \in {j \in 1..Len(pairs) :
                    \A k \in (j + 1)..Len(pairs) : pairs[k][1] # pairs[j][1]}}]

\* The decoders the codec's decode hands an error frame carrying the given
\* error code to: the ones its dispatch table pairs with that code.
ErrorDecode(codec, code) == {p[2] : p \in {q \in codec.table : q[1] = code}}

\* codec.decode for the codec at position i of the list of line 81.
InboundDecoder(i) ==
    IF InboundCodecs[i] = "ErrorMessage.Codec"
    THEN ErrorCodec(error_decoders)
    ELSE Method(InboundCodecs[i], "decode")

\* h is a heap.  The loops below test it on every turn, so that the heap a call
\* leaves is computed before the next call is made.
IsHeap(h) == DOMAIN h = {"maps", "tables", "registries", "handlers"}

\* A loop that registers an encoder of its own for version 5.
RECURSIVE AddEncodersPerVersion(_, _, _, _)
AddEncodersPerVersion(h, r, v, i) ==
    IF i > Len(OutboundMessages) \/ ~IsHeap(h) THEN h
    ELSE AddEncodersPerVersion(
             _add(h, h.registries[r].encoders, v, Opcode(OutboundMessages[i]),
                  Method(OutboundMessages[i], IF v = 5 THEN "encode_v5" ELSE "encode")),
             r, v, i + 1)

\* for message in [...]: registry.add_encoder(v, message.opcode, message.encode)
RECURSIVE AddEncoders(_, _, _, _)
AddEncoders(h, r, v, i) ==
    IF i > Len(OutboundMessages) \/ ~IsHeap(h) THEN h
    ELSE AddEncoders(_add(h, h.registries[r].encoders, v,
                          Opcode(OutboundMessages[i]),
                          Method(OutboundMessages[i], "encode")),
                     r, v, i + 1)

\* for codec in [...]: registry.add_decoder(v, codec.opcode, codec.decode)
RECURSIVE AddDecoders(_, _, _, _)
AddDecoders(h, r, v, i) ==
    IF i > Len(InboundCodecs) \/ ~IsHeap(h) THEN h
    ELSE AddDecoders(_add(h, h.registries[r].decoders, v,
                          Opcode(InboundCodecs[i]), InboundDecoder(i)),
                     r, v, i + 1)

\* One turn of the loop over the versions: the encoders, then the decoders,
\* of version v.
ForVersion(h, r, v) == AddDecoders(AddEncoders(h, r, v, 1), r, v, 1)

\* for v in protocol_versions: ...
RECURSIVE ForVersions(_, _, _)
ForVersions(h, r, n) ==
    IF n > Len(protocol_versions) \/ ~IsHeap(h) THEN h
    ELSE ForVersions(ForVersion(h, r, protocol_versions[n]), r, n + 1)

\* A build that populates the registry only when it is the first one built.
BuildPopulatingFirstOnly(h) ==
    IF h.registries = <<>>
    THEN ForVersions(MessageCodecRegistry(h), 1, 1)
    ELSE MessageCodecRegistry(h)

\* The whole build: the heap with the new registry, fully populated, as its
\* last registry.
_build_message_codec_registry(h) ==
    ForVersions(MessageCodecRegistry(h), Len(h.registries) + 1, 1)

(***************************************************************************)
(* The public operations of a registry object r (a reference into          *)
(* heap.registries).                                                       *)
(***************************************************************************)
add_encoder(r, protocol_version, opcode, encoder) ==
    /\ heap' = _add(heap, heap.registries[r].encoders, protocol_version, opcode, encoder)
    /\ added' = Append(added, [op |-> "add_encoder", registry |-> r,
                               version |-> protocol_version, opcode |-> opcode,
                               func |-> encoder])
    /\ lastCall' = [op |-> "add_encoder", registry |-> r, version |-> protocol_version,
                    opcode |-> opcode, outcome |-> Returned(Method("None", "None"))]

add_decoder(r, protocol_version, opcode, decoder) ==
    /\ heap' = _add(heap, heap.registries[r].decoders, protocol_version, opcode, decoder)
    /\ added' = Append(added, [op |-> "add_decoder", registry |-> r,
                               version |-> protocol_version, opcode |-> opcode,
                               func |-> decoder])
    /\ lastCall' = [op |-> "add_decoder", registry |-> r, version |-> protocol_version,
                    opcode |-> opcode, outcome |-> Returned(Method("None", "None"))]

\* A lookup that creates the version's inner dict when it is missing, as a
\* lookup through setdefault or a defaultdict would.
GetCreatingVersion(r, protocol_version, opcode) ==
    LET registry == heap.registries[r].encoders
    IN  /\ lastCall' = [op |-> "get_encoder", registry |-> r,
                        version |-> protocol_version, opcode |-> opcode,
                        outcome |-> _get(heap, registry, protocol_version, opcode)]
        /\ heap' = IF protocol_version \in DOMAIN heap.maps[registry]
                   THEN heap
                   ELSE [heap EXCEPT !.maps[registry] =
                                         SetItem(@, protocol_version, Len(heap.tables) + 1),
                                     !.tables = Append(@, EmptyDict)]
        /\ UNCHANGED added

get_encoder(r, protocol_version, opcode) ==
    /\ lastCall' = [op |-> "get_encoder", registry |-> r, version |-> protocol_version,
                    opcode |-> opcode,
                    outcome |-> _get(heap, heap.registries[r].encoders,
                                     protocol_version, opcode)]
    /\ UNCHANGED <<heap, added>>

get_decoder(r, protocol_version, opcode) ==
    /\ lastCall' = [op |-> "get_decoder", registry |-> r, version |-> protocol_version,
                    opcode |-> opcode,
                    outcome |-> _get(heap, heap.registries[r].decoders,
                                     protocol_version, opcode)]
    /\ UNCHANGED <<heap, added>>

EmptyHeap == [maps |-> <<>>, tables |-> <<>>, registries |-> <<>>, handlers |-> <<>>]

NoCall == [op |-> "none"]

(***************************************************************************)
(* SpecRegistry: one MessageCodecRegistry, freshly constructed, and any    *)
(* sequence of at most MaxCalls calls of its four public operations.       *)
(***************************************************************************)
InitRegistry ==
    /\ heap = MessageCodecRegistry(EmptyHeap)
    /\ ctx = [_message_codec_registry |-> None, _protocol_handler |-> None]
    /\ pc = <<>>
    /\ frame = <<>>
    /\ obtained = <<>>
    /\ session = [client_protocol_handler |-> None]
    /\ requests = <<>>
    /\ added = <<>>
    /\ lastCall = NoCall

CallAddEncoder ==
    /\ Len(added) < MaxCalls
    /\ \E v \in TestVersions, o \in TestOpcodes, f \in TestEncoders :
           add_encoder(1, v, o, f)
    /\ UNCHANGED <<ctx, pc, frame, obtained, session, requests>>

CallAddDecoder ==
    /\ Len(added) < MaxCalls
    /\ \E v \in TestVersions, o \in TestOpcodes, f \in TestDecoders :
           add_decoder(1, v, o, f)
    /\ UNCHANGED <<ctx, pc, frame, obtained, session, requests>>

CallGetEncoder ==
    /\ \E v \in TestVersions, o \in TestOpcodes : get_encoder(1, v, o)
    /\ UNCHANGED <<ctx, pc, frame, obtained, session, requests>>

CallGetDecoder ==
    /\ \E v \in TestVersions, o \in TestOpcodes : get_decoder(1, v, o)
    /\ UNCHANGED <<ctx, pc, frame, obtained, session, requests>>

NextRegistry ==
    \/ CallAddEncoder
    \/ CallAddDecoder
    \/ CallGetEncoder
    \/ CallGetDecoder

SpecRegistry == InitRegistry /\ [][NextRegistry]_vars

(***************************************************************************)
(* SpecInstances: two MessageCodecRegistry objects, freshly constructed,   *)
(* and any sequence of at most MaxInstanceCalls registrations, each on     *)
(* either of them.                                                         *)
(***************************************************************************)
InitInstances ==
    /\ heap = MessageCodecRegistry(MessageCodecRegistry(EmptyHeap))
    /\ ctx = [_message_codec_registry |-> None, _protocol_handler |-> None]
    /\ pc = <<>>
    /\ frame = <<>>
    /\ obtained = <<>>
    /\ session = [client_protocol_handler |-> None]
    /\ requests = <<>>
    /\ added = <<>>
    /\ lastCall = NoCall

InstanceAddEncoder ==
    /\ Len(added) < MaxInstanceCalls
    /\ \E r \in 1..Len(heap.registries) :
           \E v \in TestVersions, o \in TestOpcodes, f \in TestEncoders :
               add_encoder(r, v, o, f)
    /\ UNCHANGED <<ctx, pc, frame, obtained, session, requests>>

InstanceAddDecoder ==
    /\ Len(added) < MaxInstanceCalls
    /\ \E r \in 1..Len(heap.registries) :
           \E v \in TestVersions, o \in TestOpcodes, f \in TestDecoders :
               add_decoder(r, v, o, f)
    /\ UNCHANGED <<ctx, pc, frame, obtained, session, requests>>

NextInstances ==
    \/ InstanceAddEncoder
    \/ InstanceAddDecoder

SpecInstances == InitInstances /\ [][NextInstances]_vars

(***************************************************************************)
(* Protocol handlers                                                       *)
(***************************************************************************)
\* The references of the inner dicts of the outer dict d.
Inner(h, d) == {h.maps[d][v] : v \in DOMAIN h.maps[d]}

\* copy.copy(d): a new outer dict that shares the inner dicts of d.
ShallowCopy(h, d) == [h EXCEPT !.maps = Append(@, h.maps[d])]

\* copy.deepcopy(d) of the outer dict d: a new outer dict (the last map of the
\* result) with a new inner dict per version, holding the same codecs.
deepcopy(h, d) ==
    LET old == h.maps[d]
        vs == DOMAIN old
        rank(v) == Cardinality({u \in vs : u <= v})
        at(i) == CHOOSE v \in vs : rank(v) = i
    IN  [h EXCEPT !.tables = @ \o [i \in 1..Cardinality(vs) |-> h.tables[old[at(i)]]],
                  !.maps = Append(@, [v \in vs |-> Len(h.tables) + rank(v)])]

\* A handler that keeps the very dicts it was given.
HandlerSharingMaps(h, cls, encoders, decoders) ==
    [h EXCEPT !.handlers =
                  Append(@, [cls |-> cls, encoders |-> encoders, decoders |-> decoders])]

\* _ProtocolHandler.__init__(encoders, decoders): the handler owns a snapshot
\* of the two maps it is given.  Returns the heap with the new handler as its
\* last handler.
_ProtocolHandler(h, cls, encoders, decoders) ==
    LET h1 == deepcopy(h, encoders)
        h2 == deepcopy(h1, decoders)
    IN  [h2 EXCEPT !.handlers =
                       Append(@, [cls |-> cls, encoders |-> Len(h1.maps),
                                  decoders |-> Len(h2.maps)])]

\* The opcode the custom result messages inherit from ResultMessage.
ResultOpcode == Opcode("ResultMessage.Codec")

\* for version in decoders: decoders[version][opcode] = func
SetForEveryVersion(h, decoders, opcode, func) ==
    [h EXCEPT !.tables = [i \in DOMAIN @ |->
                             IF i \in Inner(h, decoders)
                             THEN SetItem(@[i], opcode, func)
                             ELSE @[i]]]

\* The override written with copy.copy in place of copy.deepcopy.
OverrideOnShallowCopy(h, cls, encoders, decoders, opcode, func) ==
    LET h1 == ShallowCopy(h, decoders)
        h2 == SetForEveryVersion(h1, Len(h1.maps), opcode, func)
    IN  _ProtocolHandler(h2, cls, encoders, Len(h1.maps))

\* The override replacing every decoder of a version, not the one opcode.
OverrideEveryOpcode(h, cls, encoders, decoders, opcode, func) ==
    LET h1 == deepcopy(h, decoders)
        h2 == [h1 EXCEPT !.tables = [i \in DOMAIN @ |->
                             IF i \in Inner(h1, Len(h1.maps))
                             THEN [o \in DOMAIN @[i] |-> func]
                             ELSE @[i]]]
    IN  _ProtocolHandler(h2, cls, encoders, Len(h1.maps))

\* The __init__ shared by the two custom handlers: deep-copy the decoders,
\* replace the decoder of the result opcode in every version, then initialise
\* the base class with the given encoders and the patched copy.
OverrideInit(h, cls, encoders, decoders, opcode, func) ==
    LET h1 == deepcopy(h, decoders)
        h2 == SetForEveryVersion(h1, Len(h1.maps), opcode, func)
    IN  _ProtocolHandler(h2, cls, encoders, Len(h1.maps))

CustomTestRawRowType(h, encoders, decoders) ==
    OverrideInit(h, "CustomTestRawRowType", encoders, decoders,
                 ResultOpcode, Method("CustomResultMessageRaw.Codec", "decode"))

CustomProtocolHandlerResultMessageTracked(h, encoders, decoders) ==
    OverrideInit(h, "CustomProtocolHandlerResultMessageTracked", encoders, decoders,
                 ResultOpcode, Method("CustomResultMessageTracked.Codec", "decode"))

\* The lookup a handler makes in one of its own maps.
HandlerLookup(h, d, protocol_version, opcode) ==
    IF /\ protocol_version \in DOMAIN h.maps[d]
       /\ opcode \in DOMAIN h.tables[h.maps[d][protocol_version]]
    THEN Returned(h.tables[h.maps[d][protocol_version]][opcode])
    ELSE Raised("CodecNotFound", opcode, protocol_version)

(***************************************************************************)
(* DriverContext: the two lazily built properties, one step per read or    *)
(* write of an attribute of the context, so that threads interleave.       *)
(***************************************************************************)
NewFrame(caller) ==
    [caller |-> caller, built |-> None, n |-> 0, enc |-> None, dec |-> None,
     handler |-> None]

Threads == DOMAIN pc

Goto(t, label) == pc' = [pc EXCEPT ![t] = label]

\* The thread of the single-threaded specifications, and the number of
\* property accesses a thread makes.
Main == "main"

AccessLimit(t) == IF t = Main THEN MaxMainAccess ELSE MaxAccess

\* A thread begins to evaluate ctx.message_codec_registry.
AccessRegistry(t) ==
    /\ pc[t] = "idle"
    /\ Len(obtained[t]) < AccessLimit(t)
    /\ Goto(t, "m_check")
    /\ frame' = [frame EXCEPT ![t] = NewFrame("top")]
    /\ UNCHANGED <<heap, ctx, obtained, session, requests, added, lastCall>>

\* A thread begins to evaluate ctx.protocol_handler.
AccessHandler(t) ==
    /\ pc[t] = "idle"
    /\ Len(obtained[t]) < AccessLimit(t)
    /\ Goto(t, "p_check")
    /\ frame' = [frame EXCEPT ![t] = NewFrame("top")]
    /\ UNCHANGED <<heap, ctx, obtained, session, requests, added, lastCall>>

\* A property that builds on every access, whatever the context holds.
RegistryCheckAlwaysBuilding(t) ==
    /\ pc[t] = "m_check"
    /\ Goto(t, "m_build")
    /\ UNCHANGED <<heap, ctx, frame, obtained, session, requests, added, lastCall>>

\* if not self._message_codec_registry:
RegistryCheck(t) ==
    /\ pc[t] = "m_check"
    /\ Goto(t, IF ctx._message_codec_registry = None THEN "m_build" ELSE "m_return")
    /\ UNCHANGED <<heap, ctx, frame, obtained, session, requests, added, lastCall>>

\* ... self._build_message_codec_registry()
RegistryBuild(t) ==
    /\ pc[t] = "m_build"
    /\ heap' = _build_message_codec_registry(heap)
    /\ frame' = [frame EXCEPT ![t].built = Len(heap'.registries)]
    /\ Goto(t, "m_store")
    /\ UNCHANGED <<ctx, obtained, session, requests, added, lastCall>>

\* The build with the new registry stored in the context before it is filled.
RegistryNewPublished(t) ==
    /\ pc[t] = "m_build"
    /\ heap' = MessageCodecRegistry(heap)
    /\ frame' = [frame EXCEPT ![t].built = Len(heap'.registries), ![t].n = 1]
    /\ ctx' = [ctx EXCEPT !._message_codec_registry = Len(heap'.registries)]
    /\ Goto(t, "m_fill")
    /\ UNCHANGED <<obtained, session, requests, added, lastCall>>

\* The build, one step per turn of its loop.  registry = MessageCodecRegistry():
\* the new registry is a local of the building thread.
RegistryNew(t) ==
    /\ pc[t] = "m_build"
    /\ heap' = MessageCodecRegistry(heap)
    /\ frame' = [frame EXCEPT ![t].built = Len(heap'.registries), ![t].n = 1]
    /\ Goto(t, "m_fill")
    /\ UNCHANGED <<ctx, obtained, session, requests, added, lastCall>>

\* for v in protocol_versions: the registrations of one version; after the
\* last version, return registry.
RegistryFill(t) ==
    /\ pc[t] = "m_fill"
    /\ heap' = ForVersion(heap, frame[t].built, protocol_versions[frame[t].n])
    /\ frame' = [frame EXCEPT ![t].n = @ + 1]
    /\ Goto(t, IF frame[t].n = Len(protocol_versions) THEN "m_store" ELSE "m_fill")
    /\ UNCHANGED <<ctx, obtained, session, requests, added, lastCall>>

\* self._message_codec_registry = ...
RegistryStore(t) ==
    /\ pc[t] = "m_store"
    /\ ctx' = [ctx EXCEPT !._message_codec_registry = frame[t].built]
    /\ Goto(t, "m_return")
    /\ UNCHANGED <<heap, frame, obtained, session, requests, added, lastCall>>

\* return self._message_codec_registry, to the caller of the property or into
\* one of the two arguments of ProtocolHandler(...).
RegistryReturn(t) ==
    /\ pc[t] = "m_return"
    /\ LET value == ctx._message_codec_registry
       IN  CASE frame[t].caller = "top" ->
                    /\ obtained' = [obtained EXCEPT ![t] =
                           Append(@, [prop |-> "message_codec_registry",
                                      value |-> value])]
                    /\ Goto(t, "idle")
                    /\ UNCHANGED frame
             [] frame[t].caller = "encoders" ->
                    /\ frame' = [frame EXCEPT ![t].enc = heap.registries[value].encoders,
                                              ![t].caller = "decoders"]
                    /\ Goto(t, "m_check")
                    /\ UNCHANGED obtained
             [] frame[t].caller = "decoders" ->
                    /\ frame' = [frame EXCEPT ![t].dec = heap.registries[value].decoders]
                    /\ Goto(t, "p_construct")
                    /\ UNCHANGED obtained
    /\ UNCHANGED <<heap, ctx, session, requests, added, lastCall>>

\* if not self._protocol_handler:
HandlerCheck(t) ==
    /\ pc[t] = "p_check"
    /\ IF ctx._protocol_handler = None
       THEN /\ Goto(t, "m_check")
            /\ frame' = [frame EXCEPT ![t].caller = "encoders"]
       ELSE /\ Goto(t, "p_return")
            /\ UNCHANGED frame
    /\ UNCHANGED <<heap, ctx, obtained, session, requests, added, lastCall>>

\* ProtocolHandler(self.message_codec_registry.encoders,
\*                 self.message_codec_registry.decoders)
HandlerConstruct(t) ==
    /\ pc[t] = "p_construct"
    /\ heap' = _ProtocolHandler(heap, "ProtocolHandler", frame[t].enc, frame[t].dec)
    /\ frame' = [frame EXCEPT ![t].handler = Len(heap'.handlers)]
    /\ Goto(t, "p_store")
    /\ UNCHANGED <<ctx, obtained, session, requests, added, lastCall>>

\* self._protocol_handler = ...
HandlerStore(t) ==
    /\ pc[t] = "p_store"
    /\ ctx' = [ctx EXCEPT !._protocol_handler = frame[t].handler]
    /\ Goto(t, "p_return")
    /\ UNCHANGED <<heap, frame, obtained, session, requests, added, lastCall>>

\* return self._protocol_handler
HandlerReturn(t) ==
    /\ pc[t] = "p_return"
    /\ obtained' = [obtained EXCEPT ![t] =
           Append(@, [prop |-> "protocol_handler", value |-> ctx._protocol_handler])]
    /\ Goto(t, "idle")
    /\ UNCHANGED <<heap, ctx, frame, session, requests, added, lastCall>>

\* The threads sharing the context in SpecThreads.
ThreadIds == {"T1", "T2"}

InitContext(T) ==
    /\ heap = EmptyHeap
    /\ ctx = [_message_codec_registry |-> None, _protocol_handler |-> None]
    /\ pc = [t \in T |-> "idle"]
    /\ frame = [t \in T |-> NewFrame("none")]
    /\ obtained = [t \in T |-> <<>>]
    /\ session = [client_protocol_handler |-> None]
    /\ requests = <<>>
    /\ added = <<>>
    /\ lastCall = NoCall

(***************************************************************************)
(* SpecThreads: the threads of ThreadIds share one DriverContext and each   *)
(* reads its two properties at most MaxAccess times, in any interleaving.  *)
(***************************************************************************)
InitThreads == InitContext(ThreadIds)

NextThreads ==
    \/ \E t \in Threads : AccessRegistry(t)
    \/ \E t \in Threads : AccessHandler(t)
    \/ \E t \in Threads : RegistryCheck(t)
    \/ \E t \in Threads : RegistryBuild(t)
    \/ \E t \in Threads : RegistryStore(t)
    \/ \E t \in Threads : RegistryReturn(t)
    \/ \E t \in Threads : HandlerCheck(t)
    \/ \E t \in Threads : HandlerConstruct(t)
    \/ \E t \in Threads : HandlerStore(t)
    \/ \E t \in Threads : HandlerReturn(t)

SpecThreads == InitThreads /\ [][NextThreads]_vars

(***************************************************************************)
(* SpecBuild: as SpecThreads, with the build taking one step to construct  *)
(* the registry and one step per protocol version to fill it, so that      *)
(* other threads run while a registry is being filled.  Each thread reads  *)
(* a property at most MaxBuildAccess times.                                *)
(***************************************************************************)
NextBuild ==
    \/ \E t \in Threads : Len(obtained[t]) < MaxBuildAccess /\ AccessRegistry(t)
    \/ \E t \in Threads : Len(obtained[t]) < MaxBuildAccess /\ AccessHandler(t)
    \/ \E t \in Threads : RegistryCheck(t)
    \/ \E t \in Threads : RegistryNew(t)
    \/ \E t \in Threads : RegistryFill(t)
    \/ \E t \in Threads : RegistryStore(t)
    \/ \E t \in Threads : RegistryReturn(t)
    \/ \E t \in Threads : HandlerCheck(t)
    \/ \E t \in Threads : HandlerConstruct(t)
    \/ \E t \in Threads : HandlerStore(t)
    \/ \E t \in Threads : HandlerReturn(t)

SpecBuild == InitThreads /\ [][NextBuild]_vars

(***************************************************************************)
(* Spec: one thread uses a DriverContext and a session.  Between two       *)
(* property accesses it may construct a custom handler from the default    *)
(* maps, make a handler the session's active one, begin a request and      *)
(* complete one.                                                           *)
(***************************************************************************)
\* The registrations a caller makes on the built registry: the query encoder
\* and the result decoder of version 4 are replaced, and codecs for a version
\* 6 the build does not know are added.
LateVersions == {4, 6}
LateEncoders == {Method("E1", "encode")}
LateDecoders == {Method("D1", "decode")}
LateEncoderOpcodes == {Opcode("QueryMessage")}
LateDecoderOpcodes == {Opcode("ResultMessage.Codec")}

\* The registry the main thread holds: the one a property access gave it.
HeldRegistries ==
    {obtained[Main][i].value :
        i \in {j \in 1..Len(obtained[Main]) :
                  obtained[Main][j].prop = "message_codec_registry"}}

RegistryAddEncoder ==
    /\ pc[Main] = "idle"
    /\ Len(added) < MaxAdds
    /\ \E r \in HeldRegistries, v \in LateVersions, o \in LateEncoderOpcodes,
          f \in LateEncoders : add_encoder(r, v, o, f)
    /\ UNCHANGED <<ctx, pc, frame, obtained, session, requests>>

RegistryAddDecoder ==
    /\ pc[Main] = "idle"
    /\ Len(added) < MaxAdds
    /\ \E r \in HeldRegistries, v \in LateVersions, o \in LateDecoderOpcodes,
          f \in LateDecoders : add_decoder(r, v, o, f)
    /\ UNCHANGED <<ctx, pc, frame, obtained, session, requests>>

CustomClasses == {"CustomTestRawRowType", "CustomProtocolHandlerResultMessageTracked"}

CustomHandlers == {i \in 1..Len(heap.handlers) : heap.handlers[i].cls \in CustomClasses}

\* Each custom handler class is instantiated once.
Constructed(cls) == \E i \in 1..Len(heap.handlers) : heap.handlers[i].cls = cls

\* The maps a custom handler class is instantiated with: those of the default
\* handler, or those of the registry the default handler was built from.
DefaultMaps ==
    {[encoders |-> heap.handlers[ctx._protocol_handler].encoders,
      decoders |-> heap.handlers[ctx._protocol_handler].decoders],
     [encoders |-> heap.registries[ctx._message_codec_registry].encoders,
      decoders |-> heap.registries[ctx._message_codec_registry].decoders]}

\* handler = CustomTestRawRowType(encoders, decoders)
ConstructRawRowType ==
    /\ pc[Main] = "idle"
    /\ ctx._protocol_handler # None
    /\ ~Constructed("CustomTestRawRowType")
    /\ \E m \in DefaultMaps :
           heap' = CustomTestRawRowType(heap, m.encoders, m.decoders)
    /\ UNCHANGED <<ctx, pc, frame, obtained, session, requests, added, lastCall>>

\* handler = CustomProtocolHandlerResultMessageTracked(encoders, decoders)
ConstructResultMessageTracked ==
    /\ pc[Main] = "idle"
    /\ ctx._protocol_handler # None
    /\ ~Constructed("CustomProtocolHandlerResultMessageTracked")
    /\ \E m \in DefaultMaps :
           heap' = CustomProtocolHandlerResultMessageTracked(heap, m.encoders,
                                                             m.decoders)
    /\ UNCHANGED <<ctx, pc, frame, obtained, session, requests, added, lastCall>>

\* session.client_protocol_handler = handler: one assignment of a reference.
SetClientProtocolHandler ==
    /\ pc[Main] = "idle"
    /\ \E h \in 1..Len(heap.handlers) :
           /\ h # session.client_protocol_handler
           /\ session' = [session EXCEPT !.client_protocol_handler = h]
    /\ UNCHANGED <<heap, ctx, pc, frame, obtained, requests, added, lastCall>>

\* The protocol version of the session's connection and what it sends and
\* receives.
SessionVersions == {4}
RequestMessages == {"QueryMessage"}
ResponseCodecs == {"ResultMessage.Codec"}

\* The handler whose decoders decode the response of a request once the
\* session's handler was swapped to another: the session's handler of the moment.
HandlerOfTheMoment(req) == session.client_protocol_handler

\* The handler whose decoders decode the response of a request: the one the
\* request took when it began.
ResponseHandler(req) == req.handler

\* A request begins: it takes the session's active handler and encodes the
\* message with that handler's encoder.
BeginRequest ==
    /\ pc[Main] = "idle"
    /\ session.client_protocol_handler # None
    /\ Len(requests) < MaxRequests
    /\ \A i \in 1..Len(requests) : requests[i].done
    /\ \E v \in SessionVersions, m \in RequestMessages :
           LET h == session.client_protocol_handler
           IN  /\ requests' = Append(requests,
                      [handler |-> h, activeAtBegin |-> h, version |-> v,
                       opcode |-> Opcode(m),
                       encoder |-> HandlerLookup(heap, heap.handlers[h].encoders,
                                                 v, Opcode(m)),
                       encoderMap |-> heap.handlers[h].encoders,
                       done |-> FALSE])
    /\ UNCHANGED <<heap, ctx, pc, frame, obtained, session, added, lastCall>>

\* The response of a pending request arrives and is decoded.
CompleteRequest ==
    /\ pc[Main] = "idle"
    /\ \E i \in 1..Len(requests), c \in ResponseCodecs :
           LET h == ResponseHandler(requests[i])
           IN  /\ ~requests[i].done
               /\ requests' = [requests EXCEPT ![i] =
                      [handler |-> @.handler, activeAtBegin |-> @.activeAtBegin,
                       version |-> @.version,
                       opcode |-> @.opcode, encoder |-> @.encoder,
                       encoderMap |-> @.encoderMap, done |-> TRUE,
                       response |-> Opcode(c),
                       decoder |-> HandlerLookup(heap, heap.handlers[h].decoders,
                                                 @.version, Opcode(c)),
                       decoderMap |-> heap.handlers[h].decoders,
                       activeAtEnd |-> session.client_protocol_handler]]
    /\ UNCHANGED <<heap, ctx, pc, frame, obtained, session, added, lastCall>>

\* The main thread reads a property of the context when it does not hold the
\* value yet.
Holds(prop) == \E i \in 1..Len(obtained[Main]) : obtained[Main][i].prop = prop

MainAccessRegistry == ~Holds("message_codec_registry") /\ AccessRegistry(Main)

MainAccessHandler == ~Holds("protocol_handler") /\ AccessHandler(Main)

Init == InitContext({Main})

Next ==
    \/ MainAccessRegistry
    \/ MainAccessHandler
    \/ RegistryCheck(Main)
    \/ RegistryBuild(Main)
    \/ RegistryStore(Main)
    \/ RegistryReturn(Main)
    \/ HandlerCheck(Main)
    \/ HandlerConstruct(Main)
    \/ HandlerStore(Main)
    \/ HandlerReturn(Main)
    \/ ConstructRawRowType
    \/ ConstructResultMessageTracked
    \/ SetClientProtocolHandler
    \/ BeginRequest
    \/ CompleteRequest

Spec == Init /\ [][Next]_vars

(***************************************************************************)
(* SpecLate: one thread uses a DriverContext, registers codecs on the      *)
(* registry the context gave it, before or after the default handler is    *)
(* built, and constructs custom handlers from the default maps.            *)
(***************************************************************************)
NextLate ==
    \/ MainAccessRegistry
    \/ MainAccessHandler
    \/ RegistryCheck(Main)
    \/ RegistryBuild(Main)
    \/ RegistryStore(Main)
    \/ RegistryReturn(Main)
    \/ HandlerCheck(Main)
    \/ HandlerConstruct(Main)
    \/ HandlerStore(Main)
    \/ HandlerReturn(Main)
    \/ RegistryAddEncoder
    \/ RegistryAddDecoder
    \/ ConstructRawRowType
    \/ ConstructResultMessageTracked

SpecLate == Init /\ [][NextLate]_vars

(***************************************************************************)
(* SpecSingle: one thread reads the two properties of a DriverContext, in  *)
(* any order, MaxMainAccess times in all.                                  *)
(***************************************************************************)
NextSingle ==
    \/ AccessRegistry(Main)
    \/ AccessHandler(Main)
    \/ RegistryCheck(Main)
    \/ RegistryBuild(Main)
    \/ RegistryStore(Main)
    \/ RegistryReturn(Main)
    \/ HandlerCheck(Main)
    \/ HandlerConstruct(Main)
    \/ HandlerStore(Main)
    \/ HandlerReturn(Main)

SpecSingle == Init /\ [][NextSingle]_vars

(***************************************************************************)
(* What the history of registrations says about a (version, opcode) pair.  *)
(***************************************************************************)
Registrations(op, r, v, o) ==
    {i \in 1..Len(added) : /\ added[i].op = op
                           /\ added[i].registry = r
                           /\ added[i].version = v
                           /\ added[i].opcode = o}

WasRegistered(op, r, v, o) == Registrations(op, r, v, o) # {}

MostRecent(op, r, v, o) ==
    LET S == Registrations(op, r, v, o)
    IN  added[CHOOSE i \in S : \A j \in S : j <= i].func

\* C1: after any sequence of add_encoder / add_decoder calls, get_encoder
\* (get_decoder) of every pair registered at least once returns the function
\* of the most recent add_encoder (add_decoder) call for that exact pair:
\* registering an occupied pair again does not raise, it replaces the entry.
C1_LastRegistrationWins ==
    \A v \in TestVersions, o \in TestOpcodes :
        /\ WasRegistered("add_encoder", 1, v, o) =>
               _get(heap, heap.registries[1].encoders, v, o)
                   = Returned(MostRecent("add_encoder", 1, v, o))
        /\ WasRegistered("add_decoder", 1, v, o) =>
               _get(heap, heap.registries[1].decoders, v, o)
                   = Returned(MostRecent("add_decoder", 1, v, o))
        /\ (lastCall.op = "get_encoder" /\ lastCall.version = v /\ lastCall.opcode = o
                /\ WasRegistered("add_encoder", 1, v, o)) =>
               lastCall.outcome = Returned(MostRecent("add_encoder", 1, v, o))
        /\ (lastCall.op = "get_decoder" /\ lastCall.version = v /\ lastCall.opcode = o
                /\ WasRegistered("add_decoder", 1, v, o)) =>
               lastCall.outcome = Returned(MostRecent("add_decoder", 1, v, o))

\* C1 witness: a pair registered twice with different encoders, another opcode
\* of the same version registered in between, and get_encoder of the pair
\* answering the second encoder.
C1_Witness ==
    /\ Len(added) = 3
    /\ added[1].op = "add_encoder" /\ added[3].op = "add_encoder"
    /\ added[2].op = "add_encoder"
    /\ added[1].version = added[3].version /\ added[1].opcode = added[3].opcode
    /\ added[2].version = added[1].version /\ added[2].opcode # added[1].opcode
    /\ added[1].func # added[3].func
    /\ lastCall.op = "get_encoder"
    /\ lastCall.version = added[3].version /\ lastCall.opcode = added[3].opcode
    /\ lastCall.outcome = Returned(added[3].func)

\* C2: get_encoder / get_decoder of a pair never registered in the
\* corresponding map raises, returns no value, and the failure carries that
\* opcode (two upper-case hex digits) and that version; so when the version has
\* no entry at all and when it has entries for other opcodes only.
C2_UnregisteredLookupRaises ==
    /\ (lastCall.op = "get_encoder"
            /\ ~WasRegistered("add_encoder", 1, lastCall.version, lastCall.opcode)) =>
           /\ lastCall.outcome.kind = "raise"
           /\ ParseDigits(lastCall.outcome.message[2], 16) = lastCall.opcode
           /\ Len(lastCall.outcome.message[2]) = 2
           /\ ParseDigits(lastCall.outcome.message[4], 10) = lastCall.version
    /\ (lastCall.op = "get_decoder"
            /\ ~WasRegistered("add_decoder", 1, lastCall.version, lastCall.opcode)) =>
           /\ lastCall.outcome.kind = "raise"
           /\ ParseDigits(lastCall.outcome.message[2], 16) = lastCall.opcode
           /\ Len(lastCall.outcome.message[2]) = 2
           /\ ParseDigits(lastCall.outcome.message[4], 10) = lastCall.version

\* C2 witness: an encoder is registered for (4, 0x07) and a decoder for
\* (4, 0x10); get_encoder(4, 0x10) finds the version but not the opcode and
\* raises, naming message '10' and protocol version '4'.
C2_Witness ==
    /\ WasRegistered("add_encoder", 1, 4, 7)
    /\ WasRegistered("add_decoder", 1, 4, 16)
    /\ ~WasRegistered("add_encoder", 1, 4, 16)
    /\ lastCall.op = "get_encoder" /\ lastCall.version = 4 /\ lastCall.opcode = 16
    /\ lastCall.outcome.kind = "raise"
    /\ lastCall.outcome.message[2] = <<"1", "0">>
    /\ lastCall.outcome.message[4] = <<"4">>

(***************************************************************************)
(* The two-level dict d read as a value, and what the context has built.   *)
(***************************************************************************)
Content(h, d) == [v \in DOMAIN h.maps[d] |-> h.tables[h.maps[d][v]]]

DefaultHandler == heap.handlers[ctx._protocol_handler]

DefaultRegistry == heap.registries[ctx._message_codec_registry]

\* The maps a build leaves, computed on an empty heap.
FreshEncoders == Content(_build_message_codec_registry(EmptyHeap), 1)
FreshDecoders == Content(_build_message_codec_registry(EmptyHeap), 2)

CustomDecoders ==
    {Method("CustomResultMessageRaw.Codec", "decode"),
     Method("CustomResultMessageTracked.Codec", "decode")}

\* C3: a handler built as an override of the RESULT decoder has exactly the
\* decoder keys of the base handler, the base handler's decoder under every
\* key whose opcode is not RESULT, its own decoder under RESULT, and the
\* encoder of the base handler under every key.
C3_OverrideChangesResultOnly ==
    \A c \in CustomHandlers :
        LET mine == Content(heap, heap.handlers[c].decoders)
            base == Content(heap, DefaultHandler.decoders)
        IN  /\ DOMAIN mine = DOMAIN base
            /\ \A v \in DOMAIN mine :
                   /\ DOMAIN mine[v] = DOMAIN base[v]
                   /\ \A o \in DOMAIN mine[v] \ {ResultOpcode} : mine[v][o] = base[v][o]
                   /\ mine[v][ResultOpcode] \in CustomDecoders
                   /\ mine[v][ResultOpcode] # base[v][ResultOpcode]
            /\ Content(heap, heap.handlers[c].encoders)
                   = Content(heap, DefaultHandler.encoders)

\* C3 witness: both custom handlers exist; the raw-row handler answers its own
\* decoder for (4, RESULT) and the default error decoder for (5, ERROR).
C3_Witness ==
    /\ Cardinality(CustomHandlers) = 2
    /\ \E c \in CustomHandlers :
           /\ heap.handlers[c].cls = "CustomTestRawRowType"
           /\ HandlerLookup(heap, heap.handlers[c].decoders, 4, ResultOpcode)
                  = Returned(Method("CustomResultMessageRaw.Codec", "decode"))
           /\ HandlerLookup(heap, heap.handlers[c].decoders, 5,
                            Opcode("ErrorMessage.Codec"))
                  = HandlerLookup(heap, DefaultHandler.decoders, 5,
                                  Opcode("ErrorMessage.Codec"))
           /\ HandlerLookup(heap, DefaultHandler.decoders, 5,
                            Opcode("ErrorMessage.Codec")).kind = "return"

\* C4: constructing and using an override handler leaves the maps of the
\* registry and of the default handler as the build left them, and a request
\* that runs with the default handler, also after a custom handler was
\* installed and swapped out again, is decoded with the default RESULT decoder.
C4_DefaultMapsUntouched ==
    /\ ctx._message_codec_registry # None =>
           /\ Content(heap, DefaultRegistry.encoders) = FreshEncoders
           /\ Content(heap, DefaultRegistry.decoders) = FreshDecoders
    /\ ctx._protocol_handler # None =>
           /\ Content(heap, DefaultHandler.encoders) = FreshEncoders
           /\ Content(heap, DefaultHandler.decoders) = FreshDecoders
    /\ \A i \in 1..Len(requests) :
           (requests[i].done /\ requests[i].handler = ctx._protocol_handler) =>
               requests[i].decoder = Returned(Method("ResultMessage.Codec", "decode"))

\* C4 witness: a first request ran with a custom handler and was decoded by the
\* custom decoder; the session was swapped back and a second request, run with
\* the default handler, was decoded by the default RESULT decoder.
C4_Witness ==
    /\ Len(requests) = 2
    /\ requests[1].done /\ requests[2].done
    /\ requests[1].handler \in CustomHandlers
    /\ requests[1].decoder.value \in CustomDecoders
    /\ requests[2].handler = ctx._protocol_handler
    /\ session.client_protocol_handler = ctx._protocol_handler
    /\ requests[2].decoder = Returned(Method("ResultMessage.Codec", "decode"))

\* C5: a swap of the session's handler takes effect at the next request
\* boundary: a request is encoded with the encoders, and its response decoded
\* with the decoders, of the one handler that was active when it began, also
\* when the session's handler is swapped while the request is in flight.
C5_RequestKeepsItsHandler ==
    \A i \in 1..Len(requests) :
        /\ requests[i].encoderMap = heap.handlers[requests[i].activeAtBegin].encoders
        /\ requests[i].done =>
               requests[i].decoderMap = heap.handlers[requests[i].activeAtBegin].decoders

\* C5 witness: a request began under a custom handler, the session was swapped
\* to the default handler while it was in flight, and it completed with the
\* custom decoder; the next request began under the default handler.
C5_Witness ==
    /\ Len(requests) = 2
    /\ requests[1].done
    /\ requests[1].activeAtBegin \in CustomHandlers
    /\ requests[1].activeAtEnd = ctx._protocol_handler
    /\ requests[1].decoder.value \in CustomDecoders
    /\ requests[2].activeAtBegin = ctx._protocol_handler
    /\ requests[2].encoderMap = DefaultHandler.encoders

\* C6: once the default handler is built, no later step, a registration on the
\* registry it was built from included, changes what the handler holds for any
\* (version, opcode) pair.
C6_HandlerIsSnapshot ==
    [][ctx._protocol_handler # None =>
          /\ ctx'._protocol_handler = ctx._protocol_handler
          /\ Content(heap', heap'.handlers[ctx'._protocol_handler].encoders)
                 = Content(heap, DefaultHandler.encoders)
          /\ Content(heap', heap'.handlers[ctx'._protocol_handler].decoders)
                 = Content(heap, DefaultHandler.decoders)]_vars

\* C6 witness: after the handler was built, the registry got another query
\* encoder for version 4 and a decoder for a version 6; the handler still
\* answers the built query encoder and knows no version 6.
C6_Witness ==
    /\ ctx._protocol_handler # None
    /\ Len(added) = 2
    /\ _get(heap, DefaultRegistry.encoders, 4, Opcode("QueryMessage"))
           = Returned(Method("E1", "encode"))
    /\ _get(heap, DefaultRegistry.decoders, 6, ResultOpcode)
           = Returned(Method("D1", "decode"))
    /\ HandlerLookup(heap, DefaultHandler.encoders, 4, Opcode("QueryMessage"))
           = Returned(Method("QueryMessage", "encode"))
    /\ HandlerLookup(heap, DefaultHandler.decoders, 6, ResultOpcode).kind = "raise"

\* What the property accesses of all threads returned for a property.
Accesses == {p \in Threads \X (1..MaxAccess) : p[2] <= Len(obtained[p[1]])}

ObtainedValues(prop) ==
    {obtained[p[1]][p[2]].value :
        p \in {q \in Accesses : obtained[q[1]][q[2]].prop = prop}}

\* C7: under concurrent first access the default registry and the default
\* handler are each built exactly once, and every caller obtains the same
\* registry instance and the same handler instance.
C7_SingleBuild ==
    /\ Len(heap.registries) <= 1
    /\ Len(heap.handlers) <= 1
    /\ Cardinality(ObtainedValues("message_codec_registry")) <= 1
    /\ Cardinality(ObtainedValues("protocol_handler")) <= 1

\* The registry was built and a property access returned it.
RegistryReturned == HeldRegistries # {}

\* C8, as stated: once the default registry has been built and returned, no
\* step changes an entry of its maps or adds a key to them.
C8_RegistryNeverChanges ==
    [][RegistryReturned =>
          /\ Content(heap', DefaultRegistry.encoders)
                 = Content(heap, DefaultRegistry.encoders)
          /\ Content(heap', DefaultRegistry.decoders)
                 = Content(heap, DefaultRegistry.decoders)]_vars

\* C8, amended: once the default registry has been built and returned, its
\* maps change only by an add_encoder / add_decoder call on it, which sets the
\* one entry of the call in place; the property accesses of the context and
\* the construction of the default and of the custom handlers change nothing.
C8_OnlyRegistrationsChangeRegistry ==
    [][RegistryReturned =>
          \/ /\ added' = added
             /\ ctx'._message_codec_registry = ctx._message_codec_registry
             /\ Content(heap', DefaultRegistry.encoders)
                    = Content(heap, DefaultRegistry.encoders)
             /\ Content(heap', DefaultRegistry.decoders)
                    = Content(heap, DefaultRegistry.decoders)
          \/ /\ Len(added') = Len(added) + 1
             /\ ctx'._message_codec_registry = ctx._message_codec_registry
             /\ LET a == added'[Len(added')]
                    was == IF a.op = "add_encoder"
                           THEN Content(heap, DefaultRegistry.encoders)
                           ELSE Content(heap, DefaultRegistry.decoders)
                    now == IF a.op = "add_encoder"
                           THEN Content(heap', DefaultRegistry.encoders)
                           ELSE Content(heap', DefaultRegistry.decoders)
                IN  /\ a.registry = ctx._message_codec_registry
                    /\ now[a.version][a.opcode] = a.func
                    /\ DOMAIN now = DOMAIN was \cup {a.version}
                    /\ \A v \in DOMAIN now :
                           /\ DOMAIN now[v] = (IF v \in DOMAIN was THEN DOMAIN was[v] ELSE {})
                                                  \cup (IF v = a.version THEN {a.opcode} ELSE {})
                           /\ \A o \in DOMAIN now[v] :
                                  (v # a.version \/ o # a.opcode) => now[v][o] = was[v][o]
                    /\ (a.op = "add_encoder") =>
                           Content(heap', DefaultRegistry.decoders)
                               = Content(heap, DefaultRegistry.decoders)
                    /\ (a.op = "add_decoder") =>
                           Content(heap', DefaultRegistry.encoders)
                               = Content(heap, DefaultRegistry.encoders)]_vars

\* C8 witness: the built and returned registry was changed by registrations (a
\* replaced entry and a new version key), and both custom handlers were
\* constructed.
C8_Witness ==
    /\ RegistryReturned
    /\ Len(added) = 2
    /\ 6 \in DOMAIN Content(heap, DefaultRegistry.decoders)
    /\ Content(heap, DefaultRegistry.encoders)[4][Opcode("QueryMessage")]
           = Method("E1", "encode")
    /\ Cardinality(CustomHandlers) = 2

OutboundOpcodes == {1, 5, 7, 9, 10, 11, 13, 15}
InboundOpcodes == {0, 2, 3, 6, 8, 12, 14, 16}

\* C9: every default-built registry has, for each of the versions 3, 4 and 5
\* and for no other version, an encoder for each of the 8 outbound opcodes and
\* for no other opcode, and a decoder for each of the 8 inbound opcodes and for
\* no other opcode; the RESULT and ERROR decoders are among them.
C9_DefaultRegistryContents ==
    \A r \in 1..Len(heap.registries) :
        LET enc == Content(heap, heap.registries[r].encoders)
            dec == Content(heap, heap.registries[r].decoders)
        IN  /\ DOMAIN enc = {3, 4, 5}
            /\ DOMAIN dec = {3, 4, 5}
            /\ \A v \in {3, 4, 5} :
                   /\ DOMAIN enc[v] = OutboundOpcodes
                   /\ DOMAIN dec[v] = InboundOpcodes
                   /\ \A m \in {"StartupMessage", "RegisterMessage", "BatchMessage",
                                "QueryMessage", "ExecuteMessage", "PrepareMessage",
                                "OptionsMessage", "AuthResponseMessage"} :
                          enc[v][Opcode(m)] = Method(m, "encode")
                   /\ \A c \in {"ReadyMessage", "EventMessage.Codec",
                                "ResultMessage.Codec", "AuthenticateMessage",
                                "AuthSuccessMessage", "AuthChallengeMessage",
                                "SupportedMessage", "ErrorMessage.Codec"} :
                          /\ dec[v][Opcode(c)].cls = c
                          /\ dec[v][Opcode(c)].attr = "decode"
                   /\ ResultOpcode \in DOMAIN dec[v]
                   /\ Opcode("ErrorMessage.Codec") \in DOMAIN dec[v]

DecoderOf(r, v, o) == _get(heap, heap.registries[r].decoders, v, o)

\* C9 witness: a registry was built, stored in the context and returned.
C9_Witness ==
    /\ Len(heap.registries) >= 1
    /\ ctx._message_codec_registry # None
    /\ \E t \in Threads : \E i \in 1..Len(obtained[t]) :
           /\ obtained[t][i].prop = "message_codec_registry"
           /\ DecoderOf(obtained[t][i].value, 5, 8).kind = "return"

\* The dispatch tables of the ERROR decoders of the registries built so far.
ErrorTables ==
    {Content(heap, heap.registries[r].decoders)[v][Opcode("ErrorMessage.Codec")].table :
        r \in 1..Len(heap.registries), v \in {3, 4, 5}}

\* C10, as stated: the dispatch table of the ERROR decoder holds exactly 18
\* error variants.
C10_EighteenVariants ==
    \A T \in ErrorTables : Cardinality(T) = 18

\* C10, amended: the dispatch table of the ERROR decoder holds exactly the 19
\* error variants named in the data model (CDC-write-exception is one of
\* them), each code paired with the decoder of its own class.
C10_NineteenVariants ==
    \A T \in ErrorTables :
        /\ Cardinality(T) = 19
        /\ T = {<<error_code(e), Method(e, "decode")>> :
                  e \in {"UnavailableErrorMessage", "ReadTimeoutErrorMessage",
                         "WriteTimeoutErrorMessage", "IsBootstrappingErrorMessage",
                         "OverloadedErrorMessage", "UnauthorizedErrorMessage",
                         "ServerError", "ProtocolException", "BadCredentials",
                         "TruncateError", "ReadFailureMessage",
                         "FunctionFailureMessage", "WriteFailureMessage",
                         "CDCWriteException", "SyntaxException",
                         "InvalidRequestException", "ConfigurationException",
                         "PreparedQueryNotFound", "AlreadyExistsException"}}

\* C10 witness: a built registry is stored in the context and the table of its
\* ERROR decoder for version 4 holds the CDC write exception.
C10_Witness ==
    /\ ctx._message_codec_registry # None
    /\ <<error_code("CDCWriteException"), Method("CDCWriteException", "decode")>>
           \in Content(heap, DefaultRegistry.decoders)[4][Opcode("ErrorMessage.Codec")].table

\* The ERROR decoder registered in registry r for version v.
ErrorDecoderOf(r, v) ==
    Content(heap, heap.registries[r].decoders)[v][Opcode("ErrorMessage.Codec")]

\* C11: in every default-built registry and for each of the versions 3, 4 and
\* 5, an error frame carrying a code of the dispatch table is handed to the
\* decoder of the error class that code belongs to and to no other decoder
\* (the code of 'unavailable' to the decoder of UnavailableErrorMessage), and
\* the dispatch table is the same for the three versions.
C11_ErrorDispatch ==
    \A r \in 1..Len(heap.registries) :
        /\ \A v \in {3, 4, 5} :
               /\ ErrorDecoderOf(r, v).table # {}
               /\ \A p \in ErrorDecoderOf(r, v).table :
                      \E e \in {ErrorClasses[i] : i \in 1..Len(ErrorClasses)} :
                          /\ p[1] = error_code(e)
                          /\ ErrorDecode(ErrorDecoderOf(r, v), p[1])
                                 = {Method(e, "decode")}
               /\ ErrorDecode(ErrorDecoderOf(r, v), error_code("UnavailableErrorMessage"))
                      = {Method("UnavailableErrorMessage", "decode")}
        /\ \A v, w \in {3, 4, 5} :
               ErrorDecoderOf(r, v).table = ErrorDecoderOf(r, w).table

\* C11 witness: a thread obtained a built registry whose ERROR decoder for
\* version 5 hands the 'unavailable' code to a decoder.
C11_Witness ==
    \E t \in Threads : \E i \in 1..Len(obtained[t]) :
        /\ obtained[t][i].prop = "message_codec_registry"
        /\ ErrorDecode(ErrorDecoderOf(obtained[t][i].value, 5),
                       error_code("UnavailableErrorMessage")) # {}

\* The (version, opcode) keys of a map given by its content.
KeySet(c) == UNION {{<<v, o>> : o \in DOMAIN c[v]} : v \in DOMAIN c}

\* C12: any two registries produced by two calls of the build have encoder
\* maps with the same (version, opcode) keys and decoder maps with the same
\* keys, and under every key the two hold codecs that behave the same: the
\* same method of the same class and, for the ERROR decoder, the same
\* dispatch table.
C12_BuildsAgree ==
    \A r1, r2 \in 1..Len(heap.registries) :
        LET e1 == Content(heap, heap.registries[r1].encoders)
            e2 == Content(heap, heap.registries[r2].encoders)
            d1 == Content(heap, heap.registries[r1].decoders)
            d2 == Content(heap, heap.registries[r2].decoders)
        IN  /\ KeySet(e1) = KeySet(e2)
            /\ KeySet(d1) = KeySet(d2)
            /\ \A k \in KeySet(e1) : e1[k[1]][k[2]] = e2[k[1]][k[2]]
            /\ \A k \in KeySet(d1) : d1[k[1]][k[2]] = d2[k[1]][k[2]]

\* C12 witness: the build was called twice; the two registries are distinct
\* objects with distinct dicts, both populated.
C12_Witness ==
    /\ Len(heap.registries) = 2
    /\ heap.registries[1].encoders # heap.registries[2].encoders
    /\ Inner(heap, heap.registries[1].decoders)
           \cap Inner(heap, heap.registries[2].decoders) = {}
    /\ KeySet(Content(heap, heap.registries[2].decoders)) # {}

\* The encoder map enc and the decoder map dec hold every entry the build
\* registers: for each of the versions 3, 4 and 5, the encoder of each
\* outbound message and the decoder of each inbound codec.
HasEveryDefaultEntry(enc, dec) ==
    \A v \in {3, 4, 5} :
        /\ v \in DOMAIN heap.maps[enc]
        /\ v \in DOMAIN heap.maps[dec]
        /\ \A m \in {"StartupMessage", "RegisterMessage", "BatchMessage",
                     "QueryMessage", "ExecuteMessage", "PrepareMessage",
                     "OptionsMessage", "AuthResponseMessage"} :
               /\ Opcode(m) \in DOMAIN heap.tables[heap.maps[enc][v]]
               /\ heap.tables[heap.maps[enc][v]][Opcode(m)] = Method(m, "encode")
        /\ \A c \in {"ReadyMessage", "EventMessage.Codec", "ResultMessage.Codec",
                     "AuthenticateMessage", "AuthSuccessMessage",
                     "AuthChallengeMessage", "SupportedMessage",
                     "ErrorMessage.Codec"} :
               /\ Opcode(c) \in DOMAIN heap.tables[heap.maps[dec][v]]
               /\ heap.tables[heap.maps[dec][v]][Opcode(c)].cls = c

\* Registry r holds some but not all of the default entries.
PartiallyPopulated(r) ==
    /\ DOMAIN heap.maps[heap.registries[r].encoders] # {3, 4, 5}
    /\ ~HasEveryDefaultEntry(heap.registries[r].encoders, heap.registries[r].decoders)

\* C13: under every interleaving of the threads' accesses, every registry a
\* thread was returned by message_codec_registry, every registry map handed to
\* ProtocolHandler inside protocol_handler, every handler returned by
\* protocol_handler, and the registry the context holds, has every default
\* encoder and decoder entry for the versions 3, 4 and 5.
C13_NoPartialRegistry ==
    /\ \A t \in Threads : \A i \in 1..Len(obtained[t]) :
           LET got == obtained[t][i]
           IN  CASE got.prop = "message_codec_registry" ->
                        HasEveryDefaultEntry(heap.registries[got.value].encoders,
                                             heap.registries[got.value].decoders)
                 [] got.prop = "protocol_handler" ->
                        HasEveryDefaultEntry(heap.handlers[got.value].encoders,
                                             heap.handlers[got.value].decoders)
    /\ \A t \in Threads :
           /\ frame[t].enc # None =>
                  \E r \in 1..Len(heap.registries) :
                      /\ heap.registries[r].encoders = frame[t].enc
                      /\ HasEveryDefaultEntry(heap.registries[r].encoders,
                                              heap.registries[r].decoders)
           /\ frame[t].dec # None =>
                  \E r \in 1..Len(heap.registries) :
                      /\ heap.registries[r].decoders = frame[t].dec
                      /\ HasEveryDefaultEntry(heap.registries[r].encoders,
                                              heap.registries[r].decoders)
    /\ ctx._message_codec_registry # None =>
           HasEveryDefaultEntry(heap.registries[ctx._message_codec_registry].encoders,
                                heap.registries[ctx._message_codec_registry].decoders)

\* C13 witness: one thread was returned a registry while another thread's
\* build is under way, its registry filled for some versions only.
C13_Witness ==
    /\ \E t \in Threads : \E i \in 1..Len(obtained[t]) :
           obtained[t][i].prop = "message_codec_registry"
    /\ \E u \in Threads :
           /\ pc[u] = "m_fill"
           /\ frame[u].n = 2
           /\ PartiallyPopulated(frame[u].built)

\* C14: every step that is a get_encoder or get_decoder call, whether it
\* returns a codec or raises, leaves the heap as it was, every dict with the
\* keys and values it had; in particular the encoder map and the decoder map
\* of the registry have the same version keys as before the call.
C14_LookupsArePureReads ==
    [][lastCall'.op \in {"get_encoder", "get_decoder"} =>
          /\ heap' = heap
          /\ \A r \in 1..Len(heap.registries) :
                 /\ DOMAIN heap'.maps[heap'.registries[r].encoders]
                        = DOMAIN heap.maps[heap.registries[r].encoders]
                 /\ DOMAIN heap'.maps[heap'.registries[r].decoders]
                        = DOMAIN heap.maps[heap.registries[r].decoders]]_vars

\* C14 witness: after a registration, a lookup for a version the map has no
\* entries for has raised, and the map still has no key for that version.
C14_Witness ==
    /\ Len(added) >= 1
    /\ lastCall.op \in {"get_encoder", "get_decoder"}
    /\ lastCall.outcome.kind = "raise"
    /\ lastCall.version \notin
           DOMAIN heap.maps[IF lastCall.op = "get_encoder"
                            THEN heap.registries[lastCall.registry].encoders
                            ELSE heap.registries[lastCall.registry].decoders]

\* The map a registration writes and the map it must leave alone.
WrittenMap(h, call) ==
    IF call.op = "add_encoder" THEN h.registries[call.registry].encoders
    ELSE h.registries[call.registry].decoders

OtherMap(h, call) ==
    IF call.op = "add_encoder" THEN h.registries[call.registry].decoders
    ELSE h.registries[call.registry].encoders

\* C15: a step that is add_encoder(v, op, fn) leaves the decoder map as it
\* was, version keys included, so that get_decoder(v, op) has the outcome it
\* had before; in the encoder map the entry of (v, op) becomes fn, no key
\* other than (v, op) appears or disappears, and every other entry keeps its
\* codec.  The same holds for add_decoder with the two maps exchanged.
C15_AddChangesOneEntry ==
    [][lastCall'.op \in {"add_encoder", "add_decoder"} =>
          LET call == lastCall'
              key == <<call.version, call.opcode>>
              written == Content(heap, WrittenMap(heap, call))
              written2 == Content(heap', WrittenMap(heap', call))
          IN  /\ Content(heap', OtherMap(heap', call)) = Content(heap, OtherMap(heap, call))
              /\ _get(heap', OtherMap(heap', call), call.version, call.opcode)
                     = _get(heap, OtherMap(heap, call), call.version, call.opcode)
              /\ KeySet(written2) = KeySet(written) \cup {key}
              /\ written2[call.version][call.opcode] = added'[Len(added')].func
              /\ \A k \in KeySet(written) \ {key} :
                     written2[k[1]][k[2]] = written[k[1]][k[2]]]_vars

\* C15 witness: an encoder was registered last, the encoder map holds another
\* entry besides it, the decoder map holds an entry, and the decoder lookup
\* for the pair just registered raises.
C15_Witness ==
    /\ lastCall.op = "add_encoder"
    /\ KeySet(Content(heap, WrittenMap(heap, lastCall)))
           \ {<<lastCall.version, lastCall.opcode>>} # {}
    /\ KeySet(Content(heap, OtherMap(heap, lastCall))) # {}
    /\ _get(heap, OtherMap(heap, lastCall), lastCall.version, lastCall.opcode).kind
           = "raise"

\* C16: in every default-built registry, each outbound opcode has, under the
\* versions 3, 4 and 5, one and the same encoder function.
C16_SameEncoderForEveryVersion ==
    \A r \in 1..Len(heap.registries) :
        LET enc == Content(heap, heap.registries[r].encoders)
        IN  \A o \in OutboundOpcodes : \A v \in {3, 4, 5}, w \in {3, 4, 5} :
                /\ o \in DOMAIN enc[v]
                /\ enc[v][o] = enc[w][o]

\* C16 witness: the context holds a built registry whose three versions keep
\* their encoders in three distinct dicts, each with the query encoder.
C16_Witness ==
    /\ ctx._message_codec_registry # None
    /\ Cardinality(Inner(heap, DefaultRegistry.encoders)) = 3
    /\ \A v \in {3, 4, 5} :
           Content(heap, DefaultRegistry.encoders)[v][Opcode("QueryMessage")]
               = Method("QueryMessage", "encode")

\* C17: with one thread, at most one registry and at most one handler are
\* ever built; once an access has returned there is exactly one registry, and
\* once protocol_handler has returned there is exactly one handler and one
\* registry; every value message_codec_registry returned is that registry,
\* every value protocol_handler returned is that handler, and the handler was
\* constructed from the two maps of that registry.
C17_BuiltOnceSingleThreaded ==
    /\ Len(heap.registries) <= 1
    /\ Len(heap.handlers) <= 1
    /\ \A i \in 1..Len(obtained[Main]) :
           LET got == obtained[Main][i]
           IN  /\ Len(heap.registries) = 1
               /\ got.prop = "message_codec_registry" =>
                      /\ got.value = 1
                      /\ got.value = ctx._message_codec_registry
               /\ got.prop = "protocol_handler" =>
                      /\ Len(heap.handlers) = 1
                      /\ got.value = 1
                      /\ got.value = ctx._protocol_handler
    /\ frame[Main].enc # None =>
           /\ Len(heap.registries) = 1
           /\ frame[Main].enc = heap.registries[1].encoders
    /\ frame[Main].dec # None =>
           /\ Len(heap.registries) = 1
           /\ frame[Main].dec = heap.registries[1].decoders
    /\ \A p \in 1..Len(heap.handlers) :
           /\ Len(heap.registries) = 1
           /\ heap.handlers[p].cls = "ProtocolHandler"
           /\ Content(heap, heap.handlers[p].encoders)
                  = Content(heap, heap.registries[1].encoders)
           /\ Content(heap, heap.handlers[p].decoders)
                  = Content(heap, heap.registries[1].decoders)

\* C17 witness: the thread read protocol_handler first, then
\* message_codec_registry, then protocol_handler again, and more.
C17_Witness ==
    /\ Len(obtained[Main]) = 4
    /\ obtained[Main][1].prop = "protocol_handler"
    /\ obtained[Main][2].prop = "message_codec_registry"
    /\ obtained[Main][3].prop = "protocol_handler"
    /\ Len(heap.registries) = 1
    /\ Len(heap.handlers) = 1

\* The dicts, outer and inner, that registry r keeps its codecs in.
DictsOf(h, r) ==
    [outer |-> {h.registries[r].encoders, h.registries[r].decoders},
     inner |-> Inner(h, h.registries[r].encoders) \cup Inner(h, h.registries[r].decoders)]

\* C18: a step that is an add_encoder or add_decoder call on one registry
\* leaves the encoder map and the decoder map of every other registry as they
\* were, version keys included, and after it no dict, outer or inner, belongs
\* to two registries.
C18_InstancesShareNoState ==
    [][lastCall'.op \in {"add_encoder", "add_decoder"} =>
          \A q \in 1..Len(heap.registries) : q # lastCall'.registry =>
              /\ Content(heap', heap'.registries[q].encoders)
                     = Content(heap, heap.registries[q].encoders)
              /\ Content(heap', heap'.registries[q].decoders)
                     = Content(heap, heap.registries[q].decoders)
              /\ DictsOf(heap', q).outer \cap DictsOf(heap', lastCall'.registry).outer = {}
              /\ DictsOf(heap', q).inner \cap DictsOf(heap', lastCall'.registry).inner = {}]_vars

\* C18 witness: an encoder was registered on each of the two registries under
\* the same version and opcode, and each registry holds its own.
C18_Witness ==
    /\ Len(heap.registries) = 2
    /\ Len(added) = 2
    /\ added[1].registry # added[2].registry
    /\ \E v \in TestVersions, o \in TestOpcodes :
           LET e1 == _get(heap, heap.registries[1].encoders, v, o)
               e2 == _get(heap, heap.registries[2].encoders, v, o)
           IN  /\ e1.kind = "return"
               /\ e2.kind = "return"
               /\ e1.value # e2.value

====
